---------------------------- MODULE Spec2Model ----------------------------
(***************************************************************************)
(* Model of the comic-archive repackaging run of eljef.media               *)
(* (cli/__comic_fix_main__.py, lib/comic.py).                              *)
(*                                                                         *)
(* Strings are sequences of code points, so that Python's string sort,     *)
(* rsplit and format operations are computed as Python computes them.      *)
(* A path is a sequence of segments (each a string); os.path.join appends  *)
(* a segment.  The filesystem is a function from paths to contents.        *)
(***************************************************************************)
EXTENDS Integers, Sequences, FiniteSets, TLC

(***************************************************************************)
(* Bounds of the model.                                                    *)
(***************************************************************************)
\* largest number of image files in the input archive
MaxFiles == 2
\* longest list of images handed to copy_images on its own
MaxList == 3

(***************************************************************************)
(* Strings.                                                                *)
(***************************************************************************)
\* code point of each character the model uses
Ord ==
  [c \in {".", "0", "1", "2", "9", "B", "C", "E", "G", "I", "J", "N", "P",
          "W", "a", "b", "c", "d", "e", "f", "g", "i", "j", "l", "m", "n",
          "o", "p", "r", "s", "t", "v", "w", "x", "z"} |->
     CASE c = "." -> 46 [] c = "0" -> 48 [] c = "1" -> 49 [] c = "2" -> 50
       [] c = "9" -> 57 [] c = "B" -> 66 [] c = "C" -> 67 [] c = "E" -> 69
       [] c = "G" -> 71 [] c = "I" -> 73 [] c = "J" -> 74 [] c = "N" -> 78
       [] c = "P" -> 80 [] c = "W" -> 87 [] c = "a" -> 97 [] c = "b" -> 98
       [] c = "c" -> 99 [] c = "d" -> 100 [] c = "e" -> 101
       [] c = "f" -> 102 [] c = "g" -> 103 [] c = "i" -> 105
       [] c = "j" -> 106 [] c = "l" -> 108 [] c = "m" -> 109
       [] c = "n" -> 110 [] c = "o" -> 111 [] c = "p" -> 112
       [] c = "r" -> 114 [] c = "s" -> 115 [] c = "t" -> 116
       [] c = "v" -> 118 [] c = "w" -> 119
       [] c = "x" -> 120 [] c = "z" -> 122]

\* the string spelled by a tuple of characters
Str(t) == [i \in 1..Len(t) |-> Ord[t[i]]]

\* a + "." + b
Dotted(a, b) == a \o <<46>> \o b

\* Python's str < str: code point by code point, a proper prefix is smaller
RECURSIVE StrLess(_, _)
StrLess(a, b) ==
  IF b = <<>> THEN FALSE
  ELSE IF a = <<>> THEN TRUE
  ELSE IF Head(a) # Head(b) THEN Head(a) < Head(b)
  ELSE StrLess(Tail(a), Tail(b))

\* faulty variant: the list is taken in the order given, not sorted
Unsorted(s) == s

\* Python's sorted(list of str)
Sorted(s) == SortSeq(s, StrLess)

\* index of the last "." of s, 0 when there is none
RECURSIVE LastDotFrom(_, _)
LastDotFrom(s, i) ==
  IF i = 0 THEN 0 ELSE IF s[i] = 46 THEN i ELSE LastDotFrom(s, i - 1)
LastDot(s) == LastDotFrom(s, Len(s))

\* s.rsplit(".", 1)
RSplit(s) ==
  LET d == LastDot(s)
  IN  IF d = 0 THEN <<s>> ELSE <<SubSeq(s, 1, d - 1), SubSeq(s, d + 1, Len(s))>>

\* str.isdigit() of one character
IsDigit(c) == c \in 48..57

\* decimal digits of n
RECURSIVE Digits(_)
Digits(n) == IF n < 10 THEN <<48 + n>> ELSE Digits(n \div 10) \o <<48 + (n % 10)>>

\* left-pad with "0" to the width w
RECURSIVE ZeroPad(_, _)
ZeroPad(s, w) == IF Len(s) < w THEN ZeroPad(<<48>> \o s, w) ELSE s

\* width of the page number in a page file name
PageDigits == 5
\* longest page list of which every entry is looked at
MaxPages == 12

\* faulty variant: page numbers start at 1
PageName_from_one(current_page, new_ext) ==
  Dotted(<<80>> \o ZeroPad(Digits(current_page + 1), 5), new_ext)

\* f"P{current_page:05d}.{new_ext}"
PageName(current_page, new_ext) ==
  Dotted(<<Ord["P"]>> \o ZeroPad(Digits(current_page), PageDigits), new_ext)

(***************************************************************************)
(* Names and formats.                                                      *)
(***************************************************************************)
Jpg == Str(<<"j", "p", "g">>)
Png == Str(<<"p", "n", "g">>)
Webp == Str(<<"w", "e", "b", "p">>)
\* "no value" of an optional string argument (None)
None == <<>>

COMIC_INFO_XML ==
  Str(<<"C", "o", "m", "i", "c", "I", "n", "f", "o", ".", "x", "m", "l">>)
_DEFAULT_IMAGE_TYPE == Jpg
_SUPPORTED_IMAGE_TYPES == {Jpg, Png, Str(<<"w", "e", "b">>)}
\* the choices of --convert-images and of --copy-only
CliFormats == {Jpg, Png, Webp}

\* name of the program, a segment of the temp root
NAME == Str(<<"e", "j">>)
\* tempfile.gettempdir()
TempDir == <<Str(<<"t", "m", "p">>)>>

(***************************************************************************)
(* Paths and the filesystem.                                               *)
(***************************************************************************)
\* os.path.join(dir, segment)
Join(dir, seg) == IF seg = <<>> THEN dir ELSE Append(dir, seg)
\* os.path.dirname, os.path.basename
DirName(p) == SubSeq(p, 1, Len(p) - 1)
BaseName(p) == p[Len(p)]

\* p is d or lies below d
IsUnder(p, d) == Len(p) >= Len(d) /\ SubSeq(p, 1, Len(d)) = d

\* contents of filesystem entries
DirEntry == [kind |-> "dir"]
\* the bytes of the input archive
ArchiveBytes == [kind |-> "archive"]
\* a file that was there before the run started
OldBytes == [kind |-> "old"]
\* a zero-byte file
EmptyFile == [kind |-> "empty"]
\* an image file: which picture it shows and how it is encoded
ImageBytes(id, enc) == [kind |-> "image", id |-> id, enc |-> enc]
\* a manifest document: whether it has the ComicInfo root, and its Pages list
XmlBytes(root, pages) == [kind |-> "xml", root |-> root, pages |-> pages]
\* a zip archive: its members in the order they were added
ZipBytes(members) == [kind |-> "zip", members |-> members, compression |-> "ZIP_STORED"]

Exists(f, p) == p \in DOMAIN f
\* os.path.isfile
IsFile(f, p) == p \in DOMAIN f /\ f[p].kind # "dir"

\* fops.delete(path): remove the file or the whole tree, nothing if absent
Delete(f, d) == [p \in {q \in DOMAIN f : ~IsUnder(q, d)} |-> f[p]]

\* os.makedirs(path): the directory and every missing ancestor
MakeDirs(f, d) ==
  LET new == {SubSeq(d, 1, n) : n \in 1..Len(d)} \ DOMAIN f
  IN  [p \in DOMAIN f \cup new |-> IF p \in DOMAIN f THEN f[p] ELSE DirEntry]

\* write (create or replace) the file p
WriteFile(f, p, data) == [q \in DOMAIN f \cup {p} |-> IF q = p THEN data ELSE f[q]]

\* os.rename(src, dst): dst is replaced, src is gone
Rename(f, src, dst) ==
  [q \in (DOMAIN f \ {src}) \cup {dst} |-> IF q = dst THEN f[src] ELSE f[q]]

\* the part of f at and below directory d
Below(f, d) == [p \in {q \in DOMAIN f : IsUnder(q, d)} |-> f[p]]

\* names of the files directly in directory d
FilesIn(f, d) == {BaseName(p) : p \in {q \in DOMAIN f : DirName(q) = d /\ f[q].kind # "dir"}}

\* faulty variant: the temp root is made inside the comic book's directory
_get_paths_temp_in_base(comic_file) ==
  LET base == DirName(comic_file)
      name == RSplit(BaseName(comic_file))[1]
      ext  == RSplit(BaseName(comic_file))[2]
      temp == Join(Join(base, NAME), name)
      new_extracted == Join(temp, Str(<<"n", "e", "w">>))
      orig_extracted == Join(temp, Str(<<"o", "r", "i", "g">>))
  IN  [base |-> base, ext |-> ext, name |-> name,
       no_info |-> Join(base, Dotted(BaseName(comic_file),
                     Str(<<"N", "o", "C", "o", "m", "i", "c", "I", "n", "f", "o">>))),
       new |-> [file |-> Join(base, Dotted(name, Str(<<"c", "b", "z">>))),
                extracted |-> new_extracted,
                info |-> Join(new_extracted, COMIC_INFO_XML)],
       orig |-> [file |-> Join(base, Dotted(Dotted(name, Str(<<"o", "r", "i", "g">>)), ext)),
                 extracted |-> orig_extracted,
                 info |-> Join(orig_extracted, COMIC_INFO_XML)],
       temp |-> temp]

\* _get_paths(comic_file)
_get_paths(comic_file) ==
  LET base == DirName(comic_file)
      name == RSplit(BaseName(comic_file))[1]
      ext  == RSplit(BaseName(comic_file))[2]
      temp == Join(Join(TempDir, NAME), name)
      new_extracted == Join(temp, Str(<<"n", "e", "w">>))
      orig_extracted == Join(temp, Str(<<"o", "r", "i", "g">>))
  IN  [base |-> base, ext |-> ext, name |-> name,
       no_info |-> Join(base, Dotted(BaseName(comic_file),
                     Str(<<"N", "o", "C", "o", "m", "i", "c", "I", "n", "f", "o">>))),
       new |-> [file |-> Join(base, Dotted(name, Str(<<"c", "b", "z">>))),
                extracted |-> new_extracted,
                info |-> Join(new_extracted, COMIC_INFO_XML)],
       orig |-> [file |-> Join(base, Dotted(Dotted(name, Str(<<"o", "r", "i", "g">>)), ext)),
                 extracted |-> orig_extracted,
                 info |-> Join(orig_extracted, COMIC_INFO_XML)],
       temp |-> temp]

(***************************************************************************)
(* The inputs of a run.                                                    *)
(***************************************************************************)
\* image files an input archive may hold (at its root)
Universe ==
  {Str(<<"1", ".", "j", "p", "g">>), Str(<<"1", "0", ".", "j", "p", "g">>),
   Str(<<"2", ".", "j", "p", "g">>), Str(<<"a", ".", "J", "P", "G">>),
   Str(<<"1", ".", "p", "n", "g">>),
   Str(<<"1", ".", "w", "e", "b", "p">>)}

\* the directory holding the comic book
LibDir == <<Str(<<"l", "i", "b">>)>>
\* comic_file as cli_main passes it: an existing file, full path
InputFiles ==
  {Join(LibDir, Str(<<"b", ".", "c", "b", "z">>)),
   Join(LibDir, Str(<<"b", ".", "c", "b", "r">>))}

\* faulty variant: the uppercase listing is made before the lowercase one
JpegExts_upper_first == <<Str(<<"J", "P", "G">>), Jpg, Str(<<"j", "p", "e", "g">>),
                          Str(<<"J", "P", "E", "G">>)>>

\* comic_file of a second invocation, in the same directory: another name,
\* and the name the first invocation renames its input to
OtherInputs ==
  {Join(LibDir, Str(<<"c", ".", "c", "b", "z">>)),
   Join(LibDir, Str(<<"b", ".", "o", "r", "i", "g", ".", "c", "b", "z">>))}

\* comic_file paths in and around the temp root: the directories a comic
\* book may lie in, its names and extensions
PathDirs ==
  LET temp_b == Join(Join(TempDir, NAME), <<98>>)
  IN  {LibDir, TempDir, Join(TempDir, NAME), temp_b,
       Join(temp_b, Str(<<"n", "e", "w">>)), Join(temp_b, Str(<<"o", "r", "i", "g">>)),
       Join(Join(TempDir, NAME), <<99>>)}
PathInputs ==
  {Join(d, Dotted(n, e)) :
     d \in PathDirs,
     n \in {<<98>>, <<99>>, Str(<<"n", "e", "w">>), Str(<<"b", ".", "o", "r", "i", "g">>)},
     e \in {Str(<<"c", "b", "z">>), Str(<<"c", "b", "r">>)}}

\* the extensions get_images lists, and the bucket of each
JpegExts == <<Jpg, Str(<<"J", "P", "G">>), Str(<<"j", "p", "e", "g">>),
              Str(<<"J", "P", "E", "G">>)>>
PngExts == <<Png, Str(<<"P", "N", "G">>)>>
WebpExts == <<Webp, Str(<<"W", "E", "B", "P">>)>>

\* the encoding of an image file of the archive, told by its extension
EncodingOf(name) ==
  LET ext == RSplit(name)[2]
  IN  IF \E i \in 1..Len(JpegExts) : JpegExts[i] = ext THEN Jpg
      ELSE IF \E i \in 1..Len(PngExts) : PngExts[i] = ext THEN Png
      ELSE Webp

\* all orders in which the elements of S can be listed
Orders(S) ==
  {s \in [1..Cardinality(S) -> S] : \A i, j \in 1..Cardinality(S) : s[i] = s[j] => i = j}

VARIABLES
  kwargs,      \* the keyword arguments of main()
  archive,     \* what the input archive holds: image files, manifest
  fs,          \* the filesystem: path -> contents
  dir0,        \* the comic book's directory when the run started
  pc,          \* where main() is
  images,      \* the Images tuple returned by get_images
  image_list,  \* the list returned by _get_image_list
  to_compress, \* the list of files to put in the new archive
  result,      \* how the run ended: "running", "exit0", "SystemExit1", or an exception
  calls,       \* the pipeline steps started so far, in order
  pages_len,   \* copy_info on its own: the length of its pages argument
  page_entry,  \* copy_info on its own: the Pages entry built for one page
  other,       \* two invocations: the locals of the one that is not running
  ignore_folder, \* process_album_dir: its argument
  ret          \* process_album_dir: the DictObj it returned

vars == <<kwargs, archive, fs, dir0, pc, images, image_list, to_compress, result, calls,
          pages_len, page_entry, other, ignore_folder, ret>>

\* no second invocation
NoOther == [pc |-> "none"]
\* process_album_dir has not returned
NoRet == [skip |-> "unset"]

\* no Pages entry built
NoPageEntry == [page |-> <<>>, Image |-> <<>>]

\* the paths of each input, computed once
PathsOf == [f \in InputFiles \cup OtherInputs \cup PathInputs |-> _get_paths(f)]
\* main, line 130
paths == PathsOf[kwargs.comic_file]

\* a temp tree left behind by an earlier, terminated run on the same name
StaleTemp(p) ==
  LET stale_orig == Join(p.orig.extracted, Str(<<"9", ".", "p", "n", "g">>))
      stale_new == Join(p.new.extracted, PageName(0, Jpg))
  IN  WriteFile(WriteFile(MakeDirs(MakeDirs(<<>>, p.new.extracted), p.orig.extracted),
                          stale_orig, ImageBytes(Str(<<"9", ".", "p", "n", "g">>), Png)),
                stale_new, OldBytes)

\* the filesystems a run may start in
InitialFs(comic_file) ==
  LET p == _get_paths(comic_file)
      lib == WriteFile(MakeDirs(MakeDirs(<<>>, TempDir), DirName(comic_file)),
                       comic_file, ArchiveBytes)
  IN  {lib @@ aside @@ stale :
         aside \in {<<>>, WriteFile(<<>>, p.orig.file, OldBytes)},
         stale \in {<<>>, StaleTemp(p)}}

Init ==
  /\ kwargs \in [comic_file : InputFiles,
                 copy_only : CliFormats \cup {None},
                 img_conv : CliFormats \cup {None},
                 img_filter : BOOLEAN,
                 img_multi : BOOLEAN]
  /\ archive \in [files : {S \in SUBSET Universe : Cardinality(S) <= MaxFiles},
                  info : {"absent", "root", "noroot"}]
  /\ fs \in InitialFs(kwargs.comic_file)
  /\ dir0 = Below(fs, DirName(kwargs.comic_file))
  /\ pc = "start"
  /\ images = [jpg |-> <<>>, png |-> <<>>, webp |-> <<>>, types |-> 0]
  /\ image_list = <<>>
  /\ to_compress = <<>>
  /\ result = "running"
  /\ calls = <<>>
  /\ pages_len = 0
  /\ page_entry = NoPageEntry
  /\ other = NoOther
  /\ ignore_folder = FALSE
  /\ ret = NoRet

\* an exception leaves main(): nothing after the raising statement runs
Raise(exc) ==
  /\ pc' = "raised"
  /\ result' = exc

\* _clean_exit(paths, exit_str) with a message: the temp tree is deleted and
\* SystemExit(1) is raised
_clean_exit_error ==
  /\ fs' = Delete(fs, paths.temp)
  /\ pc' = "exited"
  /\ result' = "SystemExit1"

\* faulty variant: the temp tree is not deleted first
_create_temp_keeps_tree(f, p) ==
  MakeDirs(MakeDirs(f, p.new.extracted), p.orig.extracted)

\* _create_temp(paths), on the filesystem f
_create_temp(f, p) ==
  MakeDirs(MakeDirs(Delete(f, p.temp), p.new.extracted), p.orig.extracted)

\* main, line 130-131
main_create_temp ==
  /\ pc = "start"
  /\ fs' = _create_temp(fs, paths)
  /\ pc' = "extract"
  /\ calls' = Append(calls, "create_temp")
  /\ UNCHANGED <<kwargs, archive, dir0, images, image_list, to_compress, result>>
  /\ UNCHANGED <<pages_len, page_entry, other, ignore_folder, ret>>

\* the files of the archive written below dir
Extracted(f, dir, files, info) ==
  LET img == [p \in {Join(dir, n) : n \in files} |->
                ImageBytes(BaseName(p), EncodingOf(BaseName(p)))]
      xml == IF info = "absent" THEN <<>>
             ELSE WriteFile(<<>>, Join(dir, COMIC_INFO_XML), XmlBytes(info = "root", <<>>))
  IN  img @@ xml @@ f

\* main, line 132: comic.extract, unar succeeds
main_extract ==
  /\ pc = "extract"
  /\ fs' = Extracted(fs, paths.orig.extracted, archive.files, archive.info)
  /\ pc' = "classify"
  /\ calls' = Append(calls, "extract")
  /\ UNCHANGED <<kwargs, archive, dir0, images, image_list, to_compress, result>>
  /\ UNCHANGED <<pages_len, page_entry, other, ignore_folder, ret>>

\* main, line 132: comic.extract, unar exits non-zero, having written none
\* or some of the files; the CalledProcessError is raised again
main_extract_fails ==
  /\ pc = "extract"
  /\ \E part \in {{}, archive.files} :
       fs' = Extracted(fs, paths.orig.extracted, part, "absent")
  /\ Raise("CalledProcessError")
  /\ calls' = Append(calls, "extract")
  /\ UNCHANGED <<kwargs, archive, dir0, images, image_list, to_compress>>
  /\ UNCHANGED <<pages_len, page_entry, other, ignore_folder, ret>>

\* fops.list_files_by_extension(path, ext): the files of the directory with
\* that extension; listing is the order in which the directory yields its files
list_files_by_extension(listing, ext) ==
  SelectSeq(listing, LAMBDA n : LastDot(n) # 0 /\ RSplit(n)[2] = ext)

\* filter_pages raises on a name with nothing before the extension separator
\* (name[-1] of an empty string) or with no separator (the unpacking fails)
filter_pages_raises(files) ==
  \E i \in 1..Len(files) : LastDot(files[i]) = 0 \/ RSplit(files[i])[1] = <<>>

\* faulty variant: the first character of the name is tested, not the last
filter_pages_first_char(files) ==
  SelectSeq(files, LAMBDA file : IsDigit(RSplit(file)[1][1]))

\* filter_pages(files), when it does not raise
filter_pages(files) ==
  SelectSeq(files, LAMBDA file : IsDigit(RSplit(file)[1][Len(RSplit(file)[1])]))

\* the three buckets of get_images before filtering
Buckets(listing) ==
  LET cat(exts) == IF Len(exts) = 2
                   THEN list_files_by_extension(listing, exts[1])
                        \o list_files_by_extension(listing, exts[2])
                   ELSE list_files_by_extension(listing, exts[1])
                        \o list_files_by_extension(listing, exts[2])
                        \o list_files_by_extension(listing, exts[3])
                        \o list_files_by_extension(listing, exts[4])
  IN  [jpg |-> cat(JpegExts), png |-> cat(PngExts), webp |-> cat(WebpExts)]

get_images_raises(listing, filter_images) ==
  /\ filter_images
  /\ \/ filter_pages_raises(Buckets(listing).jpg)
     \/ filter_pages_raises(Buckets(listing).png)
     \/ filter_pages_raises(Buckets(listing).webp)

\* faulty variant: the types are counted after the filter has run
get_images_types_after_filter(listing, filter_images) ==
  LET b == Buckets(listing)
      r == IF filter_images
           THEN [jpg |-> filter_pages(b.jpg), png |-> filter_pages(b.png),
                 webp |-> filter_pages(b.webp)]
           ELSE b
  IN  [jpg |-> r.jpg, png |-> r.png, webp |-> r.webp,
       types |-> (IF Len(r.jpg) > 0 THEN 1 ELSE 0) + (IF Len(r.png) > 0 THEN 1 ELSE 0)
                 + (IF Len(r.webp) > 0 THEN 1 ELSE 0)]

\* get_images(path, filter_images), path yielding its files in the order listing
get_images(listing, filter_images) ==
  LET b == Buckets(listing)
      types == (IF Len(b.jpg) > 0 THEN 1 ELSE 0) + (IF Len(b.png) > 0 THEN 1 ELSE 0)
               + (IF Len(b.webp) > 0 THEN 1 ELSE 0)
  IN  IF filter_images
      THEN [jpg |-> filter_pages(b.jpg), png |-> filter_pages(b.png),
            webp |-> filter_pages(b.webp), types |-> types]
      ELSE [jpg |-> b.jpg, png |-> b.png, webp |-> b.webp, types |-> types]

\* main, line 133
main_get_images ==
  /\ pc = "classify"
  /\ \E listing \in Orders(FilesIn(fs, paths.orig.extracted)) :
       IF get_images_raises(listing, kwargs.img_filter)
       THEN Raise("IndexError") /\ UNCHANGED images
       ELSE /\ images' = get_images(listing, kwargs.img_filter)
            /\ pc' = "validate"
            /\ UNCHANGED result
  /\ calls' = Append(calls, "get_images")
  /\ UNCHANGED <<kwargs, archive, dir0, fs, image_list, to_compress>>
  /\ UNCHANGED <<pages_len, page_entry, other, ignore_folder, ret>>

\* faulty variant: two formats are let through
Ambiguous_above_two(imgs, kw) ==
  imgs.types > 2 /\ kw.copy_only = None /\ kw.img_conv = None /\ ~kw.img_multi

\* the condition of main, line 137
Ambiguous(imgs, kw) ==
  imgs.types > 1 /\ kw.copy_only = None /\ kw.img_conv = None /\ ~kw.img_multi

\* faulty variant: the check for no images at all is left out
main_validate_no_zero_check ==
  /\ pc = "validate"
  /\ IF images.types > 1 /\ kwargs.copy_only = None /\ kwargs.img_conv = None
        /\ ~kwargs.img_multi
     THEN _clean_exit_error
     ELSE pc' = "select" /\ UNCHANGED <<fs, result>>
  /\ calls' = Append(calls, "validate")
  /\ UNCHANGED <<kwargs, archive, dir0, images, image_list, to_compress>>
  /\ UNCHANGED <<pages_len, page_entry, other, ignore_folder, ret>>

\* main, line 135-138
main_validate ==
  /\ pc = "validate"
  /\ IF images.types = 0 THEN _clean_exit_error
     ELSE IF Ambiguous(images, kwargs) THEN _clean_exit_error
     ELSE pc' = "select" /\ UNCHANGED <<fs, result>>
  /\ calls' = Append(calls, "validate")
  /\ UNCHANGED <<kwargs, archive, dir0, images, image_list, to_compress>>
  /\ UNCHANGED <<pages_len, page_entry, other, ignore_folder, ret>>

\* faulty variant: copy_only is looked at before allow_multi
_get_image_list_copy_only_first(imgs, allow_multi, copy_only) ==
  IF copy_only # None
  THEN (IF copy_only = Jpg THEN imgs.jpg
        ELSE IF copy_only = Png THEN imgs.png ELSE imgs.webp)
  ELSE IF allow_multi THEN imgs.jpg \o imgs.png \o imgs.webp
  ELSE IF Len(imgs.webp) > 0 THEN imgs.webp
  ELSE IF Len(imgs.png) > 0 THEN imgs.png
  ELSE imgs.jpg

\* _get_image_list(images, allow_multi, copy_only)
_get_image_list(imgs, allow_multi, copy_only) ==
  IF allow_multi THEN imgs.jpg \o imgs.png \o imgs.webp
  ELSE IF copy_only # None
       THEN (IF copy_only = Jpg THEN imgs.jpg
             ELSE IF copy_only = Png THEN imgs.png ELSE imgs.webp)
  ELSE IF Len(imgs.webp) > 0 THEN imgs.webp
  ELSE IF Len(imgs.png) > 0 THEN imgs.png
  ELSE imgs.jpg

\* faulty variant: the check for an empty copy_only selection is left out
main_select_no_empty_check ==
  /\ pc = "select"
  /\ image_list' = _get_image_list(images, kwargs.img_multi, kwargs.copy_only)
  /\ pc' = "copy"
  /\ calls' = Append(calls, "select")
  /\ UNCHANGED <<kwargs, archive, dir0, fs, result, images, to_compress>>
  /\ UNCHANGED <<pages_len, page_entry, other, ignore_folder, ret>>

\* main, line 140-142
main_select ==
  /\ pc = "select"
  /\ image_list' = _get_image_list(images, kwargs.img_multi, kwargs.copy_only)
  /\ IF kwargs.copy_only # None /\ image_list' = <<>> THEN _clean_exit_error
     ELSE pc' = "copy" /\ UNCHANGED <<fs, result>>
  /\ calls' = Append(calls, "select")
  /\ UNCHANGED <<kwargs, archive, dir0, images, to_compress>>
  /\ UNCHANGED <<pages_len, page_entry, other, ignore_folder, ret>>

\* faulty variant: the default extension is used whatever convert_to is
NewExt_always_default(convert_to) == _DEFAULT_IMAGE_TYPE

\* copy_images, line 80
NewExt(convert_to) == IF convert_to # None THEN convert_to ELSE _DEFAULT_IMAGE_TYPE

\* copy_images, line 81-82: the ValueError
copy_images_raises(convert_to) == NewExt(convert_to) \notin _SUPPORTED_IMAGE_TYPES

\* copy_images, line 87-97: the loop over files (already sorted), from page
\* current_page up to, not including, page n; st is [fs, new_images]
RECURSIVE CopyLoop(_, _, _, _, _, _, _)
CopyLoop(st, orig_path, new_path, files, convert_to, current_page, n) ==
  IF current_page >= n THEN st
  ELSE LET file == files[current_page + 1]
           new_file == PageName(current_page, NewExt(convert_to))
           src == st.fs[Join(orig_path, file)]
           data == IF convert_to = None THEN src ELSE ImageBytes(src.id, convert_to)
       IN  CopyLoop([fs |-> WriteFile(st.fs, Join(new_path, new_file), data),
                     new_images |-> Append(st.new_images, new_file)],
                    orig_path, new_path, files, convert_to, current_page + 1, n)

\* copy_images(orig_path, new_path, images, convert_to) on the filesystem f,
\* its loop run for the first n files: [fs, new_images]
copy_images(f, orig_path, new_path, imgs, convert_to, n) ==
  CopyLoop([fs |-> f, new_images |-> <<>>], orig_path, new_path, Sorted(imgs),
           convert_to, 0, n)

\* main, line 144: copy_images returns, or raises its ValueError
main_copy_images ==
  /\ pc = "copy"
  /\ IF copy_images_raises(kwargs.img_conv)
     THEN Raise("ValueError") /\ UNCHANGED <<fs, to_compress>>
     ELSE LET r == copy_images(fs, paths.orig.extracted, paths.new.extracted,
                               image_list, kwargs.img_conv, Len(image_list))
          IN  /\ fs' = r.fs
              /\ to_compress' = r.new_images
              /\ pc' = "rename"
              /\ UNCHANGED result
  /\ calls' = Append(calls, "copy_images")
  /\ UNCHANGED <<kwargs, archive, dir0, images, image_list>>
  /\ UNCHANGED <<pages_len, page_entry, other, ignore_folder, ret>>

\* main, line 144: copying or converting page done + 1 fails (an unreadable
\* source image, a write error), after done pages were written
main_copy_images_fails ==
  /\ pc = "copy"
  /\ ~copy_images_raises(kwargs.img_conv)
  /\ \E done \in 0..(Len(image_list) - 1) :
       fs' = copy_images(fs, paths.orig.extracted, paths.new.extracted,
                         image_list, kwargs.img_conv, done).fs
  /\ Raise("OSError")
  /\ calls' = Append(calls, "copy_images")
  /\ UNCHANGED <<kwargs, archive, dir0, images, image_list, to_compress>>
  /\ UNCHANGED <<pages_len, page_entry, other, ignore_folder, ret>>

\* faulty variant: the rename is done before copy_images instead of after it
main_rename_early ==
  /\ pc \in {"copy", "rename"}
  /\ fs' = Rename(fs, kwargs.comic_file, paths.orig.file)
  /\ pc' = IF pc = "copy" THEN "copy_late" ELSE "info"
  /\ calls' = Append(calls, "rename")
  /\ UNCHANGED <<kwargs, archive, dir0, images, image_list, to_compress, result>>
  /\ UNCHANGED <<pages_len, page_entry, other, ignore_folder, ret>>

\* faulty variant: the input archive is not renamed aside
main_rename_skipped ==
  /\ pc = "rename"
  /\ pc' = "info"
  /\ calls' = Append(calls, "rename")
  /\ UNCHANGED <<kwargs, archive, dir0, fs, images, image_list, to_compress, result>>
  /\ UNCHANGED <<pages_len, page_entry, other, ignore_folder, ret>>

\* main, line 145
main_rename ==
  /\ pc = "rename"
  /\ fs' = Rename(fs, kwargs.comic_file, paths.orig.file)
  /\ pc' = "info"
  /\ calls' = Append(calls, "rename")
  /\ UNCHANGED <<kwargs, archive, dir0, images, image_list, to_compress, result>>
  /\ UNCHANGED <<pages_len, page_entry, other, ignore_folder, ret>>

\* main, line 145: os.rename raises
main_rename_fails ==
  /\ pc = "rename"
  /\ Raise("OSError")
  /\ calls' = Append(calls, "rename")
  /\ UNCHANGED <<kwargs, archive, dir0, fs, images, image_list, to_compress>>
  /\ UNCHANGED <<pages_len, page_entry, other, ignore_folder, ret>>

\* Path(p).touch()
Touch(f, p) == IF p \in DOMAIN f THEN f ELSE WriteFile(f, p, EmptyFile)

\* copy_info, line 118-131: the entries of the Pages list; the width and the
\* height of a page are those of the picture its file shows
RECURSIVE PageEntries(_, _, _, _, _)
PageEntries(f, new_base, sorted_pages, page_count, acc) ==
  IF page_count >= Len(sorted_pages) THEN acc
  ELSE LET image == f[Join(new_base, sorted_pages[page_count + 1])]
           page_info == [Image |-> Digits(page_count), Size |-> image.id,
                         Type |-> IF page_count = 0 THEN "FrontCover" ELSE "none"]
       IN  PageEntries(f, new_base, sorted_pages, page_count + 1, Append(acc, page_info))

\* copy_info, line 131: comic_info_pages_page[0] of an empty list
copy_info_raises(f, orig_info, pages) ==
  IsFile(f, orig_info) /\ f[orig_info].root /\ pages = <<>>

\* faulty variant: the manifest name is appended also when there is none
copy_info_always_appends(f, orig_info, new_info, no_info, new_base, pages) ==
  IF ~IsFile(f, orig_info)
  THEN [fs |-> Touch(f, no_info), pages |-> pages \o <<COMIC_INFO_XML>>]
  ELSE LET comic_info_data ==
             IF f[orig_info].root
             THEN XmlBytes(TRUE, PageEntries(f, new_base, Sorted(pages), 0, <<>>))
             ELSE f[orig_info]
       IN  [fs |-> WriteFile(f, new_info, comic_info_data),
            pages |-> pages \o <<COMIC_INFO_XML>>]

\* faulty variant: the Pages list of the original manifest is kept
copy_info_keeps_pages(f, orig_info, new_info, no_info, new_base, pages) ==
  IF ~IsFile(f, orig_info)
  THEN [fs |-> Touch(f, no_info), pages |-> pages]
  ELSE [fs |-> WriteFile(f, new_info, f[orig_info]),
        pages |-> pages \o <<COMIC_INFO_XML>>]

\* copy_info(orig_info, new_info, no_info, new_base, pages) on the filesystem
\* f, when it does not raise: [fs, pages]
copy_info(f, orig_info, new_info, no_info, new_base, pages) ==
  IF ~IsFile(f, orig_info)
  THEN [fs |-> Touch(f, no_info), pages |-> pages]
  ELSE LET comic_info_data ==
             IF f[orig_info].root
             THEN XmlBytes(TRUE, PageEntries(f, new_base, Sorted(pages), 0, <<>>))
             ELSE f[orig_info]
       IN  [fs |-> WriteFile(f, new_info, comic_info_data),
            pages |-> pages \o <<COMIC_INFO_XML>>]

\* main, line 146
main_copy_info ==
  /\ pc = "info"
  /\ IF copy_info_raises(fs, paths.orig.info, to_compress)
     THEN Raise("IndexError") /\ UNCHANGED <<fs, to_compress>>
     ELSE LET r == copy_info(fs, paths.orig.info, paths.new.info, paths.no_info,
                             paths.new.extracted, to_compress)
          IN  /\ fs' = r.fs
              /\ to_compress' = r.pages
              /\ pc' = "compress"
              /\ UNCHANGED result
  /\ calls' = Append(calls, "copy_info")
  /\ UNCHANGED <<kwargs, archive, dir0, images, image_list>>
  /\ UNCHANGED <<pages_len, page_entry, other, ignore_folder, ret>>

\* main, line 146: reading the manifest or opening a page image raises
main_copy_info_fails ==
  /\ pc = "info"
  /\ IsFile(fs, paths.orig.info)
  /\ Raise("OSError")
  /\ calls' = Append(calls, "copy_info")
  /\ UNCHANGED <<kwargs, archive, dir0, fs, images, image_list, to_compress>>
  /\ UNCHANGED <<pages_len, page_entry, other, ignore_folder, ret>>

\* compress, line 64-65: the members written by the loop over files (already
\* sorted), at most n of them; the loop stops at a file that is missing
RECURSIVE ZipMembers(_, _, _, _, _)
ZipMembers(f, extracted_path, files, n, acc) ==
  IF Len(acc) >= n \/ Len(acc) >= Len(files) THEN acc
  ELSE LET file == files[Len(acc) + 1]
       IN  IF ~IsFile(f, Join(extracted_path, file)) THEN acc
           ELSE ZipMembers(f, extracted_path, files, n,
                           Append(acc, [name |-> file, data |-> f[Join(extracted_path, file)]]))

\* compress raises FileNotFoundError: a file of the list is missing
compress_raises(f, extracted_path, file_list) ==
  \E i \in 1..Len(file_list) : ~IsFile(f, Join(extracted_path, file_list[i]))

\* faulty variant: the files are added in the order of file_list
compress_in_list_order(f, comic_book, extracted_path, file_list, n) ==
  WriteFile(f, comic_book, ZipBytes(ZipMembers(f, extracted_path, file_list, n, <<>>)))

\* faulty variant: the loop over the sorted file list stops one file early
compress_drops_last(f, comic_book, extracted_path, file_list, n) ==
  WriteFile(f, comic_book,
            ZipBytes(ZipMembers(f, extracted_path, Sorted(file_list), n - 1, <<>>)))

\* compress(comic_book, extracted_path, file_list) on the filesystem f, its
\* loop run for at most n files: the archive is opened for writing at
\* comic_book, then the members are added
compress(f, comic_book, extracted_path, file_list, n) ==
  WriteFile(f, comic_book, ZipBytes(ZipMembers(f, extracted_path, Sorted(file_list), n, <<>>)))

\* main, line 147
main_compress ==
  /\ pc = "compress"
  /\ fs' = compress(fs, paths.new.file, paths.new.extracted, to_compress, Len(to_compress))
  /\ IF compress_raises(fs, paths.new.extracted, to_compress)
     THEN Raise("FileNotFoundError")
     ELSE pc' = "cleanup" /\ UNCHANGED result
  /\ calls' = Append(calls, "compress")
  /\ UNCHANGED <<kwargs, archive, dir0, images, image_list, to_compress>>
  /\ UNCHANGED <<pages_len, page_entry, other, ignore_folder, ret>>

\* main, line 147: writing member done + 1 raises (a write error), after the
\* archive was opened and done members were written
main_compress_fails ==
  /\ pc = "compress"
  /\ \E done \in 0..(Len(to_compress) - 1) :
       fs' = compress(fs, paths.new.file, paths.new.extracted, to_compress, done)
  /\ Raise("OSError")
  /\ calls' = Append(calls, "compress")
  /\ UNCHANGED <<kwargs, archive, dir0, images, image_list, to_compress>>
  /\ UNCHANGED <<pages_len, page_entry, other, ignore_folder, ret>>

\* main, line 148: _clean_exit(paths) without a message
main_clean_exit ==
  /\ pc = "cleanup"
  /\ fs' = Delete(fs, paths.temp)
  /\ pc' = "done"
  /\ result' = "exit0"
  /\ calls' = Append(calls, "cleanup")
  /\ UNCHANGED <<kwargs, archive, dir0, images, image_list, to_compress>>
  /\ UNCHANGED <<pages_len, page_entry, other, ignore_folder, ret>>

Next ==
  \/ main_create_temp
  \/ main_extract
  \/ main_extract_fails
  \/ main_get_images
  \/ main_validate
  \/ main_select
  \/ main_copy_images
  \/ main_copy_images_fails
  \/ main_rename
  \/ main_rename_fails
  \/ main_copy_info
  \/ main_copy_info_fails
  \/ main_compress
  \/ main_compress_fails
  \/ main_clean_exit

Spec == Init /\ [][Next]_vars

(***************************************************************************)
(* copy_images on its own: called with any list of distinct image paths    *)
(* of the extracted directory, in any order, and any convert_to.           *)
(***************************************************************************)
\* the steps of main() in their order
Pipeline ==
  <<"create_temp", "extract", "get_images", "validate", "select", "copy_images",
    "rename", "copy_info", "compress", "cleanup">>

InitCopy ==
  /\ kwargs \in [comic_file : {Join(LibDir, Str(<<"b", ".", "c", "b", "z">>))},
                 copy_only : {None},
                 img_conv : CliFormats \cup {None},
                 img_filter : {FALSE},
                 img_multi : {TRUE}]
  /\ \E S \in {T \in SUBSET Universe : Cardinality(T) <= MaxList} :
       /\ archive = [files |-> S, info |-> "absent"]
       /\ image_list \in Orders(S)
  /\ fs = Extracted(_create_temp(WriteFile(MakeDirs(MakeDirs(<<>>, TempDir), LibDir),
                                           kwargs.comic_file, ArchiveBytes), paths),
                    paths.orig.extracted, archive.files, "absent")
  /\ dir0 = Below(fs, LibDir)
  /\ pc = "copy"
  /\ images = get_images(image_list, FALSE)
  /\ to_compress = <<>>
  /\ result = "running"
  /\ calls = SubSeq(Pipeline, 1, 5)
  /\ pages_len = 0
  /\ page_entry = NoPageEntry
  /\ other = NoOther
  /\ ignore_folder = FALSE
  /\ ret = NoRet

NextCopy ==
  \/ main_copy_images
  \/ main_copy_images_fails

SpecCopy == InitCopy /\ [][NextCopy]_vars

(***************************************************************************)
(* get_images on its own: called on every directory of up to MaxList files *)
(* of ClassifyFiles, listed in every order, with and without the filter.   *)
(***************************************************************************)
\* files an extracted directory may hold: both cases of an extension, names
\* that end in a digit and names that do not, and a name that is only an
\* extension
ClassifyFiles ==
  {Str(<<"1", ".", "j", "p", "g">>), Str(<<"a", ".", "j", "p", "g">>),
   Str(<<"2", ".", "J", "P", "G">>), Str(<<"a", ".", "J", "P", "G">>),
   Str(<<"1", ".", "j", "p", "e", "g">>), Str(<<"1", ".", "p", "n", "g">>),
   Str(<<"1", ".", "w", "e", "b", "p">>), Str(<<".", "j", "p", "g">>)}

InitClassify ==
  /\ kwargs \in [comic_file : {Join(LibDir, Str(<<"b", ".", "c", "b", "z">>))},
                 copy_only : {None},
                 img_conv : {None},
                 img_filter : BOOLEAN,
                 img_multi : {FALSE}]
  /\ archive \in [files : {S \in SUBSET ClassifyFiles : Cardinality(S) <= MaxList},
                  info : {"absent"}]
  /\ fs = Extracted(_create_temp(WriteFile(MakeDirs(MakeDirs(<<>>, TempDir), LibDir),
                                           kwargs.comic_file, ArchiveBytes), paths),
                    paths.orig.extracted, archive.files, "absent")
  /\ dir0 = Below(fs, LibDir)
  /\ pc = "classify"
  /\ images = [jpg |-> <<>>, png |-> <<>>, webp |-> <<>>, types |-> 0]
  /\ image_list = <<>>
  /\ to_compress = <<>>
  /\ result = "running"
  /\ calls = SubSeq(Pipeline, 1, 2)
  /\ pages_len = 0
  /\ page_entry = NoPageEntry
  /\ other = NoOther
  /\ ignore_folder = FALSE
  /\ ret = NoRet

NextClassify == main_get_images

SpecClassify == InitClassify /\ [][NextClassify]_vars

(***************************************************************************)
(* filter_pages on its own: called on every list of up to MaxList distinct *)
(* names of FilterFiles.  image_list holds the argument files, to_compress *)
(* the list returned.                                                      *)
(***************************************************************************)
FilterFiles ==
  {Str(<<"1", ".", "j", "p", "g">>), Str(<<"1", "0", ".", "j", "p", "g">>),
   Str(<<"a", "1", ".", "j", "p", "g">>), Str(<<"1", "a", ".", "j", "p", "g">>),
   Str(<<"a", ".", "j", "p", "g">>), Str(<<".", "j", "p", "g">>)}

InitFilter ==
  /\ kwargs = [comic_file |-> Join(LibDir, Str(<<"b", ".", "c", "b", "z">>)),
               copy_only |-> None, img_conv |-> None,
               img_filter |-> TRUE, img_multi |-> FALSE]
  /\ \E S \in {T \in SUBSET FilterFiles : Cardinality(T) <= MaxList} :
       /\ archive = [files |-> S, info |-> "absent"]
       /\ image_list \in Orders(S)
  /\ fs = Extracted(_create_temp(WriteFile(MakeDirs(MakeDirs(<<>>, TempDir), LibDir),
                                           kwargs.comic_file, ArchiveBytes), paths),
                    paths.orig.extracted, archive.files, "absent")
  /\ dir0 = Below(fs, LibDir)
  /\ pc = "filter"
  /\ images = [jpg |-> <<>>, png |-> <<>>, webp |-> <<>>, types |-> 0]
  /\ to_compress = <<>>
  /\ result = "running"
  /\ calls = <<>>
  /\ pages_len = 0
  /\ page_entry = NoPageEntry
  /\ other = NoOther
  /\ ignore_folder = FALSE
  /\ ret = NoRet

\* filter_pages(files) called with files = image_list
call_filter_pages ==
  /\ pc = "filter"
  /\ IF filter_pages_raises(image_list)
     THEN Raise("IndexError") /\ UNCHANGED to_compress
     ELSE /\ to_compress' = filter_pages(image_list)
          /\ pc' = "filtered"
          /\ UNCHANGED result
  /\ UNCHANGED <<kwargs, archive, fs, dir0, images, image_list, calls>>
  /\ UNCHANGED <<pages_len, page_entry, other, ignore_folder, ret>>

NextFilter == call_filter_pages

SpecFilter == InitFilter /\ [][NextFilter]_vars

(***************************************************************************)
(* copy_info on its own, on the page lists copy_images returns: the short  *)
(* ones, and the shortest one with a page number wider than PageDigits.    *)
(* The list is not held in the state, only its length pages_len: it is     *)
(* PageName(0, ext) .. PageName(pages_len - 1, ext), copy_images line      *)
(* 87-97.                                                                  *)
(***************************************************************************)
\* the first page number f"{current_page:05d}" writes with more digits
FirstWideNumber == 10 ^ PageDigits

\* the lengths of the page lists, and the pages of a list an entry is built for
PageCounts == (1..MaxPages) \cup {FirstWideNumber + 1}
SamplePages(n) ==
  IF n <= MaxPages THEN 0..(n - 1)
  ELSE {0, FirstWideNumber \div 10, FirstWideNumber \div 10 + 1, FirstWideNumber}

\* copy_info, line 117-129: the value of page_count when the loop over
\* sorted(pages) reaches page, i.e. the number of names of the list before it
\* in code-point order
PageCountAt(page, n, ext) ==
  Cardinality({j \in 0..(n - 1) : StrLess(PageName(j, ext), page)})

InitOrdinals ==
  /\ kwargs \in [comic_file : {Join(LibDir, Str(<<"b", ".", "c", "b", "z">>))},
                 copy_only : {None},
                 img_conv : {None, Png},
                 img_filter : {FALSE},
                 img_multi : {FALSE}]
  /\ archive = [files |-> {}, info |-> "root"]
  /\ fs = _create_temp(WriteFile(MakeDirs(MakeDirs(<<>>, TempDir), LibDir),
                                 kwargs.comic_file, ArchiveBytes), paths)
  /\ dir0 = Below(fs, LibDir)
  /\ pc = "info"
  /\ images = [jpg |-> <<>>, png |-> <<>>, webp |-> <<>>, types |-> 0]
  /\ image_list = <<>>
  /\ to_compress = <<>>
  /\ result = "running"
  /\ calls = SubSeq(Pipeline, 1, 7)
  /\ pages_len \in PageCounts
  /\ page_entry = NoPageEntry
  /\ other = NoOther
  /\ ignore_folder = FALSE
  /\ ret = NoRet

\* copy_info, line 118-129: one pass of the loop, for the page numbered i by
\* copy_images
copy_info_page ==
  /\ pc = "info"
  /\ \E i \in SamplePages(pages_len) :
       LET page == PageName(i, NewExt(kwargs.img_conv))
           page_count == PageCountAt(page, pages_len, NewExt(kwargs.img_conv))
       IN  page_entry' = [page |-> page, Image |-> Digits(page_count)]
  /\ pc' = "entry"
  /\ UNCHANGED <<kwargs, archive, fs, dir0, images, image_list, to_compress, result,
                 calls, pages_len, other, ignore_folder, ret>>

NextOrdinals == copy_info_page

SpecOrdinals == InitOrdinals /\ [][NextOrdinals]_vars

(***************************************************************************)
(* compress on its own: called with every list of up to MaxList distinct   *)
(* names of CompressFiles, in every order, on a working directory holding  *)
(* any of these files.                                                     *)
(***************************************************************************)
CompressFiles ==
  {PageName(0, Jpg), PageName(1, Jpg), PageName(0, Png), COMIC_INFO_XML}

\* the working directory p.new.extracted holding the files of D, after the
\* input was renamed aside
CompressDir(p, D) ==
  LET base == _create_temp(WriteFile(MakeDirs(MakeDirs(<<>>, TempDir), LibDir),
                                     p.orig.file, ArchiveBytes), p)
      files == [q \in {Join(p.new.extracted, n) : n \in D} |->
                  IF BaseName(q) = COMIC_INFO_XML THEN XmlBytes(TRUE, <<>>)
                  ELSE ImageBytes(BaseName(q), RSplit(BaseName(q))[2])]
  IN  files @@ base

InitCompress ==
  /\ kwargs = [comic_file |-> Join(LibDir, Str(<<"b", ".", "c", "b", "z">>)),
               copy_only |-> None, img_conv |-> None,
               img_filter |-> FALSE, img_multi |-> TRUE]
  /\ archive = [files |-> {}, info |-> "absent"]
  /\ \E D \in SUBSET CompressFiles : fs = CompressDir(paths, D)
  /\ \E S \in {T \in SUBSET CompressFiles : Cardinality(T) <= MaxList} :
       to_compress \in Orders(S)
  /\ dir0 = Below(fs, LibDir)
  /\ pc = "compress"
  /\ images = [jpg |-> <<>>, png |-> <<>>, webp |-> <<>>, types |-> 0]
  /\ image_list = <<>>
  /\ result = "running"
  /\ calls = SubSeq(Pipeline, 1, 8)
  /\ pages_len = 0
  /\ page_entry = NoPageEntry
  /\ other = NoOther
  /\ ignore_folder = FALSE
  /\ ret = NoRet

NextCompress ==
  \/ main_compress
  \/ main_compress_fails

SpecCompress == InitCompress /\ [][NextCompress]_vars

(***************************************************************************)
(* _get_paths on its own, followed by _create_temp: main() called with     *)
(* every comic_file of PathInputs.                                         *)
(***************************************************************************)
InitPaths ==
  /\ kwargs \in [comic_file : PathInputs,
                 copy_only : {None}, img_conv : {None},
                 img_filter : {FALSE}, img_multi : {FALSE}]
  /\ archive = [files |-> {Str(<<"1", ".", "j", "p", "g">>)}, info |-> "absent"]
  /\ fs = WriteFile(MakeDirs(MakeDirs(<<>>, TempDir), DirName(kwargs.comic_file)),
                    kwargs.comic_file, ArchiveBytes)
  /\ dir0 = Below(fs, DirName(kwargs.comic_file))
  /\ pc = "paths"
  /\ images = [jpg |-> <<>>, png |-> <<>>, webp |-> <<>>, types |-> 0]
  /\ image_list = <<>>
  /\ to_compress = <<>>
  /\ result = "running"
  /\ calls = <<>>
  /\ pages_len = 0
  /\ page_entry = NoPageEntry
  /\ other = NoOther
  /\ ignore_folder = FALSE
  /\ ret = NoRet

\* main, line 130: paths = _get_paths(kwargs['comic_file'])
main_get_paths ==
  /\ pc = "paths"
  /\ paths = _get_paths(kwargs.comic_file)
  /\ pc' = "start"
  /\ UNCHANGED <<kwargs, archive, fs, dir0, images, image_list, to_compress, result,
                 calls, pages_len, page_entry, other, ignore_folder, ret>>

NextPaths ==
  \/ main_get_paths
  \/ main_create_temp

SpecPaths == InitPaths /\ [][NextPaths]_vars

(***************************************************************************)
(* main() in a directory that already holds files at the paths the run     *)
(* writes to: a name.orig.<ext>, and a name.cbz next to an input of        *)
(* another extension (e.g. what an earlier run of the tool left).          *)
(***************************************************************************)
ExistingFs(comic_file) ==
  LET p == PathsOf[comic_file]
      lib == WriteFile(MakeDirs(MakeDirs(<<>>, TempDir), DirName(comic_file)),
                       comic_file, ArchiveBytes)
  IN  {lib @@ aside @@ cbz :
         aside \in {<<>>, WriteFile(<<>>, p.orig.file, OldBytes)},
         cbz \in {<<>>, WriteFile(<<>>, p.new.file, OldBytes)}}

InitExisting ==
  /\ kwargs \in [comic_file : InputFiles,
                 copy_only : {None},
                 img_conv : {None},
                 img_filter : {FALSE},
                 img_multi : BOOLEAN]
  /\ archive \in [files : {S \in SUBSET Universe : Cardinality(S) = 1},
                  info : {"absent", "root"}]
  /\ fs \in ExistingFs(kwargs.comic_file)
  /\ dir0 = Below(fs, DirName(kwargs.comic_file))
  /\ pc = "start"
  /\ images = [jpg |-> <<>>, png |-> <<>>, webp |-> <<>>, types |-> 0]
  /\ image_list = <<>>
  /\ to_compress = <<>>
  /\ result = "running"
  /\ calls = <<>>
  /\ pages_len = 0
  /\ page_entry = NoPageEntry
  /\ other = NoOther
  /\ ignore_folder = FALSE
  /\ ret = NoRet

SpecExisting == InitExisting /\ [][Next]_vars

(***************************************************************************)
(* main() started when an earlier, terminated run on the same name has     *)
(* left its temp tree behind.                                              *)
(***************************************************************************)
InitStale ==
  /\ kwargs \in [comic_file : InputFiles,
                 copy_only : {None},
                 img_conv : {None},
                 img_filter : {FALSE},
                 img_multi : BOOLEAN]
  /\ archive \in [files : {S \in SUBSET Universe : Cardinality(S) <= MaxFiles},
                  info : {"absent", "root"}]
  /\ fs = WriteFile(MakeDirs(MakeDirs(<<>>, TempDir), DirName(kwargs.comic_file)),
                    kwargs.comic_file, ArchiveBytes) @@ StaleTemp(paths)
  /\ dir0 = Below(fs, DirName(kwargs.comic_file))
  /\ pc = "start"
  /\ images = [jpg |-> <<>>, png |-> <<>>, webp |-> <<>>, types |-> 0]
  /\ image_list = <<>>
  /\ to_compress = <<>>
  /\ result = "running"
  /\ calls = <<>>
  /\ pages_len = 0
  /\ page_entry = NoPageEntry
  /\ other = NoOther
  /\ ignore_folder = FALSE
  /\ ret = NoRet

SpecStale == InitStale /\ [][Next]_vars

(***************************************************************************)
(* process_album_dir(base, path, image_height, ignore_folder, fext) and    *)
(* the image functions it calls, on an album directory holding any of      *)
(* AlbumFiles.                                                             *)
(***************************************************************************)
Gif == Str(<<"g", "i", "f">>)
Flac == Str(<<"f", "l", "a", "c">>)
FolderName == Str(<<"f", "o", "l", "d", "e", "r">>)
CoverName == Str(<<"c", "o", "v", "e", "r">>)
DiscartName == Str(<<"d", "i", "s", "c", "a", "r", "t">>)

\* os.path.join(base, path)
AlbumPath == <<Str(<<"l", "i", "b">>), <<97>>>>

AlbumFiles ==
  {Dotted(FolderName, Jpg), Dotted(FolderName, Png), Dotted(CoverName, Jpg),
   Dotted(CoverName, Png), Dotted(DiscartName, Jpg),
   Str(<<"1", ".", "f", "l", "a", "c">>), Str(<<"2", ".", "f", "l", "a", "c">>)}

\* image_find(path, image_name): the first of image_name.jpg, .png, .webp,
\* .gif that is a file, '' when there is none
image_find(f, path, image_name) ==
  LET exts == <<Jpg, Png, Webp, Gif>>
      found == {i \in 1..Len(exts) : IsFile(f, Join(path, Dotted(image_name, exts[i])))}
  IN  IF found = {} THEN None
      ELSE Dotted(image_name, exts[CHOOSE i \in found : \A j \in found : i <= j])

\* fops.delete(name) in directory dir; nothing to delete for ''
DeleteName(f, dir, name) == IF name = None THEN f ELSE Delete(f, Join(dir, name))

\* the picture of img resized to image_height and converted, saved in the
\* format of the target's extension
Resized(img, enc) == [kind |-> "image", id |-> img.id, enc |-> enc, height |-> "image_height"]

\* _convert_and_resize(path, mid, target, max_height, encoding) in directory dir
_convert_and_resize(f, dir, path, mid, target) ==
  LET saved == WriteFile(f, Join(dir, mid), Resized(f[Join(dir, path)], RSplit(target)[2]))
      deleted == Delete(saved, Join(dir, target))
  IN  Rename(deleted, Join(dir, mid), Join(dir, target))

\* cover_fix(path, max_height): [fs, target]
cover_fix(f, dir, path) ==
  LET orig == RSplit(path)[1]
      target == Dotted(orig, Jpg)
      mid == Dotted(Dotted(orig, Str(<<"n", "e", "w">>)), Jpg)
  IN  [fs |-> _convert_and_resize(f, dir, path, mid, target), target |-> target]

\* discart_fix(path, max_height): [fs, target]
discart_fix(f, dir, path) ==
  LET orig == RSplit(path)[1]
      target == Dotted(orig, Png)
      mid == Dotted(Dotted(orig, Str(<<"n", "e", "w">>)), Png)
  IN  [fs |-> _convert_and_resize(f, dir, path, mid, target), target |-> target]

\* faulty variant: the original cover file is deleted whatever its name
process_dir_images_always_deletes(f, dir, cover_image, folder_image, discart_image) ==
  LET no_folder == DeleteName(f, dir, folder_image)
      cover == cover_fix(no_folder, dir, cover_image)
      covered == DeleteName(cover.fs, dir, cover_image)
      discart == IF discart_image # None THEN discart_fix(covered, dir, discart_image)
                 ELSE [fs |-> covered, target |-> None]
      done == IF discart_image # None /\ discart_image # discart.target
              THEN DeleteName(discart.fs, dir, discart_image) ELSE discart.fs
  IN  [fs |-> done, new_cover |-> cover.target, new_discart |-> discart.target]

\* process_dir_images(cover_image, folder_image, discart_image, image_height)
\* in directory dir: [fs, new_cover, new_discart]
process_dir_images(f, dir, cover_image, folder_image, discart_image) ==
  LET no_folder == DeleteName(f, dir, folder_image)
      cover == cover_fix(no_folder, dir, cover_image)
      covered == IF cover_image # cover.target
                 THEN DeleteName(cover.fs, dir, cover_image) ELSE cover.fs
      discart == IF discart_image # None THEN discart_fix(covered, dir, discart_image)
                 ELSE [fs |-> covered, target |-> None]
      done == IF discart_image # None /\ discart_image # discart.target
              THEN DeleteName(discart.fs, dir, discart_image) ELSE discart.fs
  IN  [fs |-> done, new_cover |-> cover.target, new_discart |-> discart.target]

InitAlbum ==
  /\ kwargs = [comic_file |-> Join(LibDir, Str(<<"b", ".", "c", "b", "z">>)),
               copy_only |-> None, img_conv |-> None,
               img_filter |-> FALSE, img_multi |-> FALSE]
  /\ archive = [files |-> {}, info |-> "absent"]
  /\ \E S \in SUBSET AlbumFiles :
       fs = [q \in {Join(AlbumPath, n) : n \in S} |->
               IF RSplit(BaseName(q))[2] = Flac THEN [kind |-> "audio"]
               ELSE ImageBytes(BaseName(q), RSplit(BaseName(q))[2])]
            @@ MakeDirs(<<>>, AlbumPath)
  /\ ignore_folder \in BOOLEAN
  /\ dir0 = Below(fs, AlbumPath)
  /\ pc = "album"
  /\ images = [jpg |-> <<>>, png |-> <<>>, webp |-> <<>>, types |-> 0]
  /\ image_list = <<>>
  /\ to_compress = <<>>
  /\ result = "running"
  /\ calls = <<>>
  /\ pages_len = 0
  /\ page_entry = NoPageEntry
  /\ other = NoOther
  /\ ret = NoRet

\* process_album_dir, with fext = 'flac'
process_album_dir ==
  /\ pc = "album"
  /\ \E listing \in Orders(FilesIn(fs, AlbumPath)) :
       LET file_list == Sorted(list_files_by_extension(listing, Flac))
           folder_image == image_find(fs, AlbumPath, FolderName)
           cover_image == image_find(fs, AlbumPath, CoverName)
           discart_image == image_find(fs, AlbumPath, DiscartName)
       IN  IF folder_image # None /\ ~ignore_folder
           THEN ret' = [skip |-> TRUE] /\ UNCHANGED fs
           ELSE IF cover_image = None
           THEN ret' = [skip |-> TRUE] /\ UNCHANGED fs
           ELSE LET r == process_dir_images(fs, AlbumPath, cover_image, folder_image,
                                            discart_image)
                IN  /\ fs' = r.fs
                    /\ ret' = [cover_image |-> r.new_cover, file_list |-> file_list,
                               full_path |-> AlbumPath, skip |-> FALSE]
  /\ pc' = "returned"
  /\ UNCHANGED <<kwargs, archive, dir0, images, image_list, to_compress, result, calls,
                 pages_len, page_entry, other, ignore_folder>>

\* process_album_dir: the cover cannot be opened or saved; process_dir_images
\* has deleted the folder image, then cover_fix raises
process_album_dir_fails ==
  /\ pc = "album"
  /\ ~(image_find(fs, AlbumPath, FolderName) # None /\ ~ignore_folder)
  /\ image_find(fs, AlbumPath, CoverName) # None
  /\ fs' = DeleteName(fs, AlbumPath, image_find(fs, AlbumPath, FolderName))
  /\ Raise("OSError")
  /\ UNCHANGED <<kwargs, archive, dir0, images, image_list, to_compress, calls,
                 pages_len, page_entry, other, ignore_folder, ret>>

NextAlbum ==
  \/ process_album_dir
  \/ process_album_dir_fails

SpecAlbum == InitAlbum /\ [][NextAlbum]_vars

(***************************************************************************)
(* Two invocations of main() at the same time, on two comic books of the   *)
(* same directory.  They share the filesystem; each has its own locals.    *)
(* The variables hold the locals of the invocation that is running, other  *)
(* those of the one that is not; context_switch lets the other one run.    *)
(***************************************************************************)
Locals ==
  [kwargs |-> kwargs, archive |-> archive, dir0 |-> dir0, pc |-> pc, images |-> images,
   image_list |-> image_list, to_compress |-> to_compress, result |-> result,
   calls |-> calls]

InitTwoRuns ==
  /\ kwargs = [comic_file |-> Join(LibDir, Str(<<"b", ".", "c", "b", "z">>)),
               copy_only |-> None, img_conv |-> None,
               img_filter |-> FALSE, img_multi |-> FALSE]
  /\ archive \in [files : {{Str(<<"1", ".", "j", "p", "g">>)}}, info : {"absent", "root"}]
  /\ \E f \in OtherInputs :
       /\ fs = WriteFile(WriteFile(MakeDirs(MakeDirs(<<>>, TempDir), LibDir),
                                   kwargs.comic_file, ArchiveBytes), f, ArchiveBytes)
       /\ other = [kwargs |-> [kwargs EXCEPT !.comic_file = f],
                   archive |-> [files |-> {Str(<<"2", ".", "j", "p", "g">>)},
                                info |-> "absent"],
                   dir0 |-> Below(fs, LibDir),
                   pc |-> "start",
                   images |-> [jpg |-> <<>>, png |-> <<>>, webp |-> <<>>, types |-> 0],
                   image_list |-> <<>>, to_compress |-> <<>>,
                   result |-> "running", calls |-> <<>>]
  /\ dir0 = Below(fs, LibDir)
  /\ pc = "start"
  /\ images = [jpg |-> <<>>, png |-> <<>>, webp |-> <<>>, types |-> 0]
  /\ image_list = <<>>
  /\ to_compress = <<>>
  /\ result = "running"
  /\ calls = <<>>
  /\ pages_len = 0
  /\ page_entry = NoPageEntry
  /\ ignore_folder = FALSE
  /\ ret = NoRet

\* the invocation that is not running gets to run
context_switch ==
  /\ other.pc \notin {"none", "done", "raised", "exited"}
  /\ kwargs' = other.kwargs
  /\ archive' = other.archive
  /\ dir0' = other.dir0
  /\ pc' = other.pc
  /\ images' = other.images
  /\ image_list' = other.image_list
  /\ to_compress' = other.to_compress
  /\ result' = other.result
  /\ calls' = other.calls
  /\ other' = Locals
  /\ UNCHANGED <<fs, pages_len, page_entry, ignore_folder, ret>>

NextTwoRuns ==
  \/ Next
  \/ context_switch

SpecTwoRuns == InitTwoRuns /\ [][NextTwoRuns]_vars

(***************************************************************************)
(* Properties.                                                             *)
(***************************************************************************)
Range(s) == {s[i] : i \in 1..Len(s)}
IsPrefix(s, t) == Len(s) <= Len(t) /\ SubSeq(t, 1, Len(s)) = s

\* the comic book's directory is as it was when the run started
DirUnchanged == Below(fs, paths.base) = dir0
\* the temp working-directory tree of the run is gone
TempRemoved == \A p \in DOMAIN fs : ~IsUnder(p, paths.temp)
\* no policy option is given
NoPolicy == kwargs.copy_only = None /\ kwargs.img_conv = None /\ ~kwargs.img_multi

\* C1: a run whose classification found more than one non-empty format
\* bucket, with none of copy_only, img_conv, img_multi set, exits with code 1
\* at the validation, before copy_images or the rename are called, and with
\* the comic book's directory as it was (input in place, no name.cbz written,
\* no name.orig.<ext>, no sentinel).
C1_AmbiguousAborts ==
  (images.types > 1 /\ NoPolicy) =>
     /\ DirUnchanged
     /\ "copy_images" \notin Range(calls)
     /\ "rename" \notin Range(calls)
     /\ pc \in {"validate", "exited"}
     /\ (pc = "exited" => result = "SystemExit1" /\ Len(calls) = 4)

C1_Witness ==
  /\ images.types > 1 /\ NoPolicy
  /\ pc = "exited" /\ result = "SystemExit1"
  /\ fs[kwargs.comic_file] = ArchiveBytes

\* C2: when a run has ended in failure, the temp working-directory tree of
\* the run is deleted.
C2_FailureRemovesTemp ==
  (pc \in {"raised", "exited"}) => TempRemoved

C4_NoPartialArchive ==
  (pc = "raised" /\ calls # <<>> /\ calls[Len(calls)] = "compress") =>
     ~(paths.new.file \in DOMAIN fs /\ fs[paths.new.file].kind = "zip")

\* C5: the steps of main() start in the pipeline's order, none skipped; the
\* rename starts only when copy_images has returned the names of all pages,
\* copy_info only when the archive has been renamed aside, and compress only
\* after copy_info.
C5_PipelineOrder ==
  /\ IsPrefix(calls, Pipeline)
  /\ (calls # <<>> /\ calls[Len(calls)] = "rename") =>
        /\ Len(to_compress) = Len(image_list)
        /\ \A i \in 1..Len(to_compress) :
              IsFile(fs, Join(paths.new.extracted, to_compress[i]))
  /\ "copy_info" \in Range(calls) => fs[paths.orig.file] = ArchiveBytes
  /\ "compress" \in Range(calls) => "copy_info" \in Range(calls)

C5_Witness ==
  /\ pc = "done"
  /\ calls = Pipeline
  /\ Len(image_list) = 2

\* the name of page i < 10 with the extension ext, spelled out
PageFile(i, ext) == Str(<<"P", "0", "0", "0", "0">>) \o <<48 + i, 46>> \o ext

\* C6: a successful run on a single-format book with no option given ends
\* with exit code 0, name.cbz holding exactly the pages P00000..P(n-1) with
\* the default extension, one per image of the source, plus ComicInfo.xml
\* exactly when the source had one; name.orig.<ext> holding the original
\* bytes; and the temp tree removed.
C6_SuccessfulRun ==
  (pc = "done" /\ images.types = 1 /\ NoPolicy /\ ~kwargs.img_filter) =>
     LET zip == fs[paths.new.file]
         n == Cardinality(archive.files)
         manifest == IF archive.info = "absent" THEN {} ELSE {COMIC_INFO_XML}
         page_members == {i \in 1..Len(zip.members) : zip.members[i].name # COMIC_INFO_XML}
     IN  /\ result = "exit0"
         /\ zip.kind = "zip"
         /\ {zip.members[i].name : i \in 1..Len(zip.members)}
              = {PageFile(i, Str(<<"j", "p", "g">>)) : i \in 0..(n - 1)} \cup manifest
         /\ Len(zip.members) = n + Cardinality(manifest)
         /\ {zip.members[i].data.id : i \in page_members} = archive.files
         /\ fs[paths.orig.file] = ArchiveBytes
         /\ TempRemoved

C6_Witness ==
  /\ pc = "done" /\ images.types = 1 /\ NoPolicy /\ ~kwargs.img_filter
  /\ Cardinality(archive.files) = 2
  /\ archive.info = "root"
  /\ Len(fs[paths.new.file].members) = 3

\* C7: when classification finds no image file at all, the run exits with
\* code 1 with the temp tree removed and the comic book's directory as it
\* was: input in place, no output archive, no sentinel.
C7_NoImagesAborts ==
  (images.types = 0 /\ "validate" \in Range(calls)) =>
     /\ pc = "exited" /\ result = "SystemExit1"
     /\ TempRemoved
     /\ DirUnchanged
     /\ fs[kwargs.comic_file] = ArchiveBytes

C7_Witness ==
  /\ images.types = 0 /\ "validate" \in Range(calls)
  /\ pc = "exited"
  /\ archive.info # "absent"

\* C8: when copy_only is set and the selector returned an empty list, the run
\* exits with code 1 with the temp tree removed, copy_images never called and
\* the archive not renamed.
C8_EmptySelectionAborts ==
  (kwargs.copy_only # None /\ "select" \in Range(calls) /\ image_list = <<>>) =>
     /\ pc = "exited" /\ result = "SystemExit1"
     /\ TempRemoved
     /\ "copy_images" \notin Range(calls)
     /\ "rename" \notin Range(calls)
     /\ DirUnchanged

C8_Witness ==
  /\ kwargs.copy_only = Png /\ "select" \in Range(calls) /\ image_list = <<>>
  /\ images.jpg # <<>>
  /\ pc = "exited"

LexLess(a, b) ==
  \E k \in 1..(Len(b)) :
    /\ \A j \in 1..(k - 1) : j <= Len(a) /\ a[j] = b[j]
    /\ (k > Len(a) \/ a[k] < b[k])

\* C10: when copy_images has returned, the file named P<i as 5 digits>.<ext>
\* shows the image whose original path has exactly i of the other selected
\* paths before it in lexicographic order, whatever the order of the list
\* given, numbering starts at 0, and the names are returned in ordinal order.
C10_SortedNumbering ==
  (pc = "rename") =>
     LET ext == IF kwargs.img_conv = None THEN Str(<<"j", "p", "g">>) ELSE kwargs.img_conv
         rank(x) == Cardinality({y \in Range(image_list) : LexLess(y, x)})
     IN  /\ to_compress = [i \in 1..Len(image_list) |-> PageFile(i - 1, ext)]
         /\ \A x \in Range(image_list) :
              fs[Join(paths.new.extracted, PageFile(rank(x), ext))].id = x

C10_Witness ==
  /\ pc = "rename"
  /\ image_list = <<Str(<<"2", ".", "j", "p", "g">>), Str(<<"1", "0", ".", "j", "p", "g">>),
                    Str(<<"1", ".", "p", "n", "g">>)>>
  /\ fs[Join(paths.new.extracted, PageFile(1, Jpg))].id = Str(<<"1", "0", ".", "j", "p", "g">>)

\* C11: copy_images accepts every format --convert-images accepts (jpg, png,
\* webp): it never raises its ValueError on a format the CLI let through.
C11_CliFormatsAccepted ==
  (kwargs.img_conv \in {Str(<<"j", "p", "g">>), Str(<<"p", "n", "g">>),
                        Str(<<"w", "e", "b", "p">>)})
     => result # "ValueError"

\* C12: when copy_images has returned, every page is named P#####.<ext> with
\* ext the convert_to given, else jpg, whatever the format of its source; and
\* with no conversion each page file holds the bytes of its source unchanged
\* (a png source stays png under its .jpg name), with a conversion the same
\* picture encoded as convert_to.
C12_TargetExtension ==
  (pc = "rename") =>
     LET ext == IF kwargs.img_conv = None THEN Str(<<"j", "p", "g">>) ELSE kwargs.img_conv
     IN  \A i \in 1..Len(to_compress) :
           /\ to_compress[i] = PageFile(i - 1, ext)
           /\ \E x \in Range(image_list) :
                LET page == fs[Join(paths.new.extracted, to_compress[i])]
                    src == fs[Join(paths.orig.extracted, x)]
                IN  IF kwargs.img_conv = None THEN page = src
                    ELSE page.kind = "image" /\ page.id = src.id
                         /\ page.enc = kwargs.img_conv

C12_Witness ==
  /\ pc = "rename"
  /\ kwargs.img_conv = None
  /\ image_list = <<Str(<<"1", ".", "p", "n", "g">>)>>
  /\ fs[Join(paths.new.extracted, PageFile(0, Jpg))].enc = Png

\* the names copy_images is to return for the selected list
ExpectedPages ==
  LET ext == IF kwargs.img_conv = None THEN Str(<<"j", "p", "g">>) ELSE kwargs.img_conv
  IN  [i \in 1..Len(image_list) |-> PageFile(i - 1, ext)]

\* C13: no image is dropped silently: for a selected list of n paths
\* copy_images returns exactly the n pairwise-distinct names P00000..P(n-1),
\* and once compress has returned the archive holds exactly those n pages,
\* the manifest being the only member there can be besides.
C13_NoSilentDrops ==
  /\ (pc = "rename") =>
        /\ to_compress = ExpectedPages
        /\ Cardinality(Range(to_compress)) = Len(image_list)
  /\ (pc \in {"cleanup", "done"}) =>
        LET zip == fs[paths.new.file]
            page_members == {i \in 1..Len(zip.members) : zip.members[i].name # COMIC_INFO_XML}
        IN  /\ zip.kind = "zip"
            /\ Cardinality(page_members) = Len(image_list)
            /\ {zip.members[i].name : i \in page_members} = Range(ExpectedPages)
            /\ Len(zip.members) - Cardinality(page_members) <= 1

C13_Witness ==
  /\ pc = "done"
  /\ Len(image_list) = 2
  /\ archive.info = "root"
  /\ Len(fs[paths.new.file].members) = 3

C15_DefaultRuleUnambiguous ==
  (Len(calls) >= 5 /\ ~kwargs.img_multi /\ kwargs.copy_only = None) =>
     images.types <= 1

\* C16: with --convert-images and without --copy-only, every image of the
\* comic book, of whatever bucket, is a page of the new archive.
C16_ConvertAllImages ==
  (pc = "done" /\ result = "exit0" /\ kwargs.img_conv # None
      /\ kwargs.copy_only = None /\ ~kwargs.img_filter) =>
     LET zip == fs[paths.new.file]
     IN  {zip.members[i].data.id :
            i \in {k \in 1..Len(zip.members) : zip.members[k].name # COMIC_INFO_XML}}
           = archive.files

\* s ends with the characters of suffix
EndsWith(s, suffix) ==
  /\ Len(s) >= Len(suffix)
  /\ SubSeq(s, Len(s) - Len(suffix) + 1, Len(s)) = suffix

\* the character right before the last "." of n is one of 0..9
StemEndsInDigit(n) ==
  \E k \in 2..Len(n) :
    /\ n[k] = 46
    /\ \A m \in (k + 1)..Len(n) : n[m] # 46
    /\ n[k - 1] \in 48..57

\* some file of the directory has one of the extensions
Holds(exts) ==
  \E n \in archive.files : \E e \in exts : EndsWith(n, <<46>> \o e)

\* C17: the types of get_images are counted before the filter runs: they
\* are the number of formats the directory holds files of, the same with
\* filter_images true as with filter_images false.
C17_TypesBeforeFilter ==
  (pc = "validate") =>
     images.types =
         (IF Holds({Str(<<"j", "p", "g">>), Str(<<"J", "P", "G">>),
                    Str(<<"j", "p", "e", "g">>), Str(<<"J", "P", "E", "G">>)})
          THEN 1 ELSE 0)
       + (IF Holds({Str(<<"p", "n", "g">>), Str(<<"P", "N", "G">>)}) THEN 1 ELSE 0)
       + (IF Holds({Str(<<"w", "e", "b", "p">>), Str(<<"W", "E", "B", "P">>)})
          THEN 1 ELSE 0)

C17_Witness ==
  /\ pc = "validate"
  /\ kwargs.img_filter
  /\ archive.files = {Str(<<"a", ".", "j", "p", "g">>), Str(<<"1", ".", "p", "n", "g">>)}
  /\ images.jpg = <<>>
  /\ images.types = 2

C19_EmptyStemDropped ==
  (pc # "filter") =>
     /\ pc = "filtered"
     /\ Str(<<".", "j", "p", "g">>) \notin Range(to_compress)

\* the directory holds files, all of them .jpg or .JPG
OnlyJpgFiles ==
  /\ archive.files # {}
  /\ \A n \in archive.files :
       EndsWith(n, Str(<<".", "j", "p", "g">>)) \/ EndsWith(n, Str(<<".", "J", "P", "G">>))

\* the jpeg bucket holds each file of S once, the .jpg ones before the .JPG ones
JpegBucketIs(S) ==
  /\ Range(images.jpg) = S
  /\ Len(images.jpg) = Cardinality(S)
  /\ \A i, j \in 1..Len(images.jpg) :
       (EndsWith(images.jpg[i], Str(<<".", "J", "P", "G">>))
          /\ EndsWith(images.jpg[j], Str(<<".", "j", "p", "g">>))) => j < i

C21_NoManifestSentinel ==
  (pc = "compress" /\ archive.info = "absent") =>
     /\ IsFile(fs, paths.no_info)
     /\ fs[paths.no_info] = [kind |-> "empty"]
     /\ paths.new.info \notin DOMAIN fs
     /\ to_compress = ExpectedPages

C21_Witness ==
  /\ pc = "compress"
  /\ archive.info = "absent"
  /\ Len(to_compress) = 2
  /\ paths.no_info \in DOMAIN fs

\* C22: when the original manifest exists, copy_info returns pages with
\* ComicInfo.xml appended and writes the document to the new manifest path:
\* with the ComicInfo root its Pages list is exactly len(pages) entries, entry
\* i with ordinal str(i) and the size of a picture of the new working
\* directory, FrontCover on entry 0 and on no other; without the root the
\* document is the original one.
C22_ManifestRebuilt ==
  (pc = "compress" /\ archive.info # "absent") =>
     LET xml == fs[paths.new.info]
         n == Len(image_list)
     IN  /\ to_compress = ExpectedPages \o <<COMIC_INFO_XML>>
         /\ xml.kind = "xml"
         /\ IF archive.info = "root"
            THEN /\ xml.root
                 /\ Len(xml.pages) = n
                 /\ \A i \in 1..n :
                      /\ xml.pages[i].Image = <<48 + (i - 1)>>
                      /\ xml.pages[i].Type = (IF i = 1 THEN "FrontCover" ELSE "none")
                      /\ \E k \in 1..n :
                           xml.pages[i].Size
                             = fs[Join(paths.new.extracted, ExpectedPages[k])].id
            ELSE xml = [kind |-> "xml", root |-> FALSE, pages |-> <<>>]

C22_Witness ==
  /\ pc = "compress"
  /\ archive.info = "root"
  /\ Len(image_list) = 2
  /\ Len(fs[paths.new.info].pages) = 2

\* C23: the manifest entry with ordinal i describes the page file whose
\* name carries ordinal i, P<i as 5 digits>.<ext>, for every page list
\* copy_images produces.
C23_OrdinalsAgree ==
  (pc = "entry") =>
     LET d == page_entry.Image
         zeros == [k \in 1..(IF Len(d) < 5 THEN 5 - Len(d) ELSE 0) |-> 48]
         ext == IF kwargs.img_conv = None THEN Str(<<"j", "p", "g">>) ELSE kwargs.img_conv
     IN  page_entry.page = <<80>> \o zeros \o d \o <<46>> \o ext

\* C24: the archive compress has written holds exactly the entries of
\* file_list, each once with the bytes of its file, and no other file of the
\* working directory; the members are in code-point order of their names
\* whatever the order of file_list; nothing is compressed (store only).
C24_CompressExact ==
  (pc = "cleanup") =>
     LET zip == fs[paths.new.file]
     IN  /\ zip.kind = "zip"
         /\ zip.compression = "ZIP_STORED"
         /\ Len(zip.members) = Len(to_compress)
         /\ {zip.members[i].name : i \in 1..Len(zip.members)} = Range(to_compress)
         /\ \A i, j \in 1..Len(zip.members) :
              i < j => LexLess(zip.members[i].name, zip.members[j].name)
         /\ \A i \in 1..Len(zip.members) :
              zip.members[i].data = fs[Join(paths.new.extracted, zip.members[i].name)]

C24_Witness ==
  /\ pc = "cleanup"
  /\ to_compress = <<PageName(1, Jpg), COMIC_INFO_XML>>
  /\ IsFile(fs, Join(paths.new.extracted, PageName(0, Jpg)))
  /\ Len(fs[paths.new.file].members) = 2
  /\ fs[paths.new.file].members[1].name = COMIC_INFO_XML

\* what a successful invocation with locals r leaves in the book's directory
OutputsIntact(r) ==
  LET p == PathsOf[r.kwargs.comic_file]
  IN  /\ IsFile(fs, p.new.file)
      /\ fs[p.new.file].kind = "zip"
      /\ {fs[p.new.file].members[i].data.id :
            i \in {k \in 1..Len(fs[p.new.file].members) :
                     fs[p.new.file].members[k].name # COMIC_INFO_XML}} = r.archive.files
      /\ IsFile(fs, p.orig.file)
      /\ fs[p.orig.file] = ArchiveBytes

\* C25: two invocations running at the same time on comic books with
\* different names do not interfere: whatever the interleaving of their
\* steps, when both have ended with exit code 0 each one's new archive holds
\* its own pages and each one's input is at its own rename-aside path.
C25_NoInterference ==
  (other.pc # "none" /\ result = "exit0" /\ other.result = "exit0") =>
     OutputsIntact(Locals) /\ OutputsIntact(other)

\* C26: for every comic_file _get_paths accepts, the new and the original
\* working directory are distinct, neither lies in the other, both lie under
\* the run's temp root, and the final archive path, the rename-aside path and
\* the sentinel path do not lie under the temp root.
C26_PathsApart ==
  (pc \in {"start", "extract"}) =>
     /\ paths.new.extracted # paths.orig.extracted
     /\ ~IsUnder(paths.new.extracted, paths.orig.extracted)
     /\ ~IsUnder(paths.orig.extracted, paths.new.extracted)
     /\ IsUnder(paths.new.extracted, paths.temp)
     /\ IsUnder(paths.orig.extracted, paths.temp)
     /\ ~IsUnder(paths.new.file, paths.temp)
     /\ ~IsUnder(paths.orig.file, paths.temp)
     /\ ~IsUnder(paths.no_info, paths.temp)

\* C27: a run of main() that passed validation carries at least one page
\* forward: copy_images is not called with an empty selection, copy_info is
\* not called with an empty page list, and no archive without a page is
\* written, with --filter-pages as without.
C27_AtLeastOnePage ==
  /\ ("copy_images" \in Range(calls)) => image_list # <<>>
  /\ ("copy_info" \in Range(calls)) => to_compress # <<>>
  /\ ("compress" \in Range(calls) /\ pc \in {"cleanup", "done"}) =>
        \E i \in 1..Len(fs[paths.new.file].members) :
           fs[paths.new.file].members[i].name # COMIC_INFO_XML

\* C28: a run destroys no file that was in the comic book's directory
\* before it started, its own input apart (which it renames): a file already
\* at name.orig.<ext> and, for an input that is not a .cbz, a file already at
\* name.cbz are still there, unchanged, whatever the run does.
C28_ExistingFilesKept ==
  \A p \in DOMAIN dir0 \ {kwargs.comic_file} :
     p \in DOMAIN fs /\ fs[p] = dir0[p]

\* C29: although an earlier run left a temp tree for the same name, when
\* extraction starts both working directories exist and are empty, the files
\* classified are files of the archive only, and every page of the new
\* archive shows a picture of the archive.
C29_FreshWorkDirs ==
  /\ (pc = "extract") =>
        \A d \in {paths.new.extracted, paths.orig.extracted} :
           /\ d \in DOMAIN fs
           /\ fs[d].kind = "dir"
           /\ {q \in DOMAIN fs : IsUnder(q, d)} = {d}
  /\ (pc \in {"validate", "select", "copy"}) =>
        Range(images.jpg) \cup Range(images.png) \cup Range(images.webp) \subseteq archive.files
  /\ (pc \in {"cleanup", "done"}) =>
        \A i \in 1..Len(fs[paths.new.file].members) :
           LET m == fs[paths.new.file].members[i]
           IN  m.name = COMIC_INFO_XML
               \/ (m.data.kind = "image" /\ m.data.id \in archive.files)

C29_Witness ==
  /\ pc = "done"
  /\ kwargs.img_multi
  /\ archive.files = {Str(<<"1", ".", "j", "p", "g">>), Str(<<"1", ".", "p", "n", "g">>)}
  /\ Len(fs[paths.new.file].members) = 2

\* the album directory held name when process_album_dir was called
Had(name) == Join(<<Str(<<"l", "i", "b">>), <<97>>>>, name) \in DOMAIN dir0
\* it holds name now
Has(name) == Join(<<Str(<<"l", "i", "b">>), <<97>>>>, name) \in DOMAIN fs

\* C30: process_album_dir returns skip = True and has changed no file when
\* there is a folder image and ignore_folder is false, or when there is no
\* cover image.  Otherwise it returns skip = False with the sorted list of
\* the audio files; the folder image is deleted, cover.jpg is the cover
\* picture converted, and the original cover file is gone unless it was
\* cover.jpg itself.
C30_AlbumDir ==
  (pc = "returned") =>
     LET folder_jpg == Str(<<"f", "o", "l", "d", "e", "r", ".", "j", "p", "g">>)
         folder_png == Str(<<"f", "o", "l", "d", "e", "r", ".", "p", "n", "g">>)
         cover_jpg == Str(<<"c", "o", "v", "e", "r", ".", "j", "p", "g">>)
         cover_png == Str(<<"c", "o", "v", "e", "r", ".", "p", "n", "g">>)
         flac1 == Str(<<"1", ".", "f", "l", "a", "c">>)
         flac2 == Str(<<"2", ".", "f", "l", "a", "c">>)
         folder == IF Had(folder_jpg) THEN folder_jpg ELSE folder_png
         cover == IF Had(cover_jpg) THEN cover_jpg ELSE cover_png
         dir == <<Str(<<"l", "i", "b">>), <<97>>>>
     IN  IF ((Had(folder_jpg) \/ Had(folder_png)) /\ ~ignore_folder)
            \/ ~(Had(cover_jpg) \/ Had(cover_png))
         THEN /\ ret = [skip |-> TRUE]
              /\ Below(fs, dir) = dir0
         ELSE /\ ret.skip = FALSE
              /\ ret.file_list = (IF Had(flac1) THEN <<flac1>> ELSE <<>>)
                                   \o (IF Had(flac2) THEN <<flac2>> ELSE <<>>)
              /\ ret.cover_image = cover_jpg
              /\ ~Has(folder)
              /\ Has(cover_jpg)
              /\ fs[Join(dir, cover_jpg)].kind = "image"
              /\ fs[Join(dir, cover_jpg)].id = cover
              /\ fs[Join(dir, cover_jpg)].enc = Str(<<"j", "p", "g">>)
              /\ fs[Join(dir, cover_jpg)].height = "image_height"
              /\ (cover # cover_jpg) => ~Has(cover)

C30_Witness ==
  /\ pc = "returned"
  /\ ignore_folder
  /\ Had(Str(<<"f", "o", "l", "d", "e", "r", ".", "j", "p", "g">>))
  /\ Had(Str(<<"c", "o", "v", "e", "r", ".", "j", "p", "g">>))
  /\ Had(Str(<<"2", ".", "f", "l", "a", "c">>))
  /\ ~ret.skip
  /\ Has(Str(<<"c", "o", "v", "e", "r", ".", "j", "p", "g">>))

=============================================================================
